---------------------------- MODULE Spec2Model ----------------------------
(***************************************************************************)
(* Bell Canada B2B API: the store of Business and Service rows, the CRUD   *)
(* operations of app/crud.py as called by the handlers of app/main.py, the *)
(* revenue reconciliation, the listings and the analytics.                 *)
(*                                                                         *)
(* Modelling decisions                                                     *)
(*  - monthly_price and total_monthly_revenue are Floats in the code; the  *)
(*    model uses naturals (an amount in cents), so rounding of float sums  *)
(*    is not modelled.                                                     *)
(*  - every statement reads the committed store (READ COMMITTED); what a   *)
(*    session has flushed becomes visible at its db.commit().              *)
(*  - text columns matched by ilike are sequences of one-character         *)
(*    strings; columns only compared by equality are strings.              *)
(*  - an Optional request parameter that was not given is a key missing    *)
(*    from the request record.                                             *)
(***************************************************************************)
EXTENDS Integers, Sequences, FiniteSets, TLC

\* ------------------------------------------------------------------ bounds
MaxServiceId == 2

MaxInitialServices == 2

MaxSkip == 2

MaxLimit == 2

\* ------------------------------------------------------------- input sets
None == "None"

BizIds == {"B1", "B2"}

ServiceIds == 1..MaxServiceId

Prices == {1, 2}

ServiceTypes == {"Internet"}

ServiceStatuses == {"active"}

\* schemas.ServiceCreate: the fields of a service a caller provides.
ServiceCreate == [service_type : ServiceTypes, monthly_price : Prices, status : ServiceStatuses]

\* The BusinessBase fields that a filter or a search reads.
AcmeCorp ==
    [company_name |-> <<"T", "e">>, email |-> <<"a">>, phone |-> <<"1">>,
     industry |-> "Technology", province |-> "ON", city |-> "Toronto",
     account_status |-> "Active"]

BusinessBase ==
    { AcmeCorp,
      [company_name |-> <<"a", "t">>, email |-> <<"e", "1">>, phone |-> <<"2">>,
       industry |-> "Healthcare", province |-> "ON", city |-> "Ottawa",
       account_status |-> "Active"],
      [company_name |-> <<"e">>, email |-> <<"t">>, phone |-> <<"1", "2">>,
       industry |-> "Technology", province |-> "QC", city |-> "Toronto",
       account_status |-> "Suspended"] }

RECURSIVE SeqsUpTo(_, _)
SeqsUpTo(S, n) ==
    IF n = 0 THEN {<<>>}
    ELSE LET shorter == SeqsUpTo(S, n - 1)
         IN shorter \cup {Append(s, x) : s \in {t \in shorter : Len(t) = n - 1}, x \in S}

\* schemas.BusinessCreate: BusinessBase plus services (default []). The schema
\* declares no id field; an object that carries one has the key "id".
BusinessCreate(base, n) ==
    { [data |-> d, services |-> ss] : d \in base, ss \in SeqsUpTo(ServiceCreate, n) }
    \cup
    { [data |-> d, services |-> ss, id |-> i] :
        d \in base, ss \in SeqsUpTo(ServiceCreate, n), i \in BizIds }

HasAttr(obj, name) == name \in DOMAIN obj

\* The businesses created where revenue is at stake: one set of base fields.
RevenueBusinessCreate == BusinessCreate({AcmeCorp}, MaxInitialServices)

\* ------------------------------------------------------------------ state
VARIABLES
    businesses,   \* table businesses: id -> row
    services,     \* table services: id -> row
    last,         \* the request just served and its outcome (one request at a time)
    pc,           \* concurrent requests: the statement each worker is to run next
    req           \* concurrent requests: the locals of each worker's request

vars == <<businesses, services, last, pc, req>>

Workers == {"w1", "w2"}

\* What is kept of a served request: the operation, its outcome, the ids it
\* was about, the calls of update_business_revenue it made (reconciled), the
\* request body where a claim reads it (body), the services rows it deleted
\* (removed), and whether it repeats the update_business_revenue call served
\* just before it (again).
Response(op, status, business_id, service_id) ==
    [op |-> op, status |-> status, business_id |-> business_id, service_id |-> service_id,
     reconciled |-> <<>>, body |-> <<>>, removed |-> {}, again |-> FALSE, supplied |-> None]

NoRequest == Response("none", "none", None, 0)

\* The committed store as the crud functions see it; calls collects the
\* invocations of update_business_revenue made while serving one request.
db == [businesses |-> businesses, services |-> services, calls |-> <<>>]

\* ------------------------------------------------------------ store reads
get_business(d, business_id) ==
    IF business_id \in DOMAIN d.businesses THEN business_id ELSE None

get_service(d, service_id) ==
    IF service_id \in DOMAIN d.services THEN service_id ELSE 0

get_services_by_business(d, business_id) ==
    {s \in DOMAIN d.services : d.services[s].business_id = business_id}

RECURSIVE SumOver(_, _)
SumOver(rows, price) ==
    IF rows = {} THEN 0
    ELSE LET r == CHOOSE x \in rows : TRUE
         IN price[r] + SumOver(rows \ {r}, price)

\* func.sum(...).scalar(): NULL (the empty sequence) over no rows.
func_sum(svc, rows) ==
    IF rows = {} THEN <<>> ELSE <<SumOver(rows, [r \in rows |-> svc[r].monthly_price])>>

\* Python's `x or 0.0` on a scalar: NULL and 0 are both falsy.
OrZero(x) == IF x = <<>> \/ x[1] = 0 THEN 0 ELSE x[1]

\* The id the store assigns to a new services row.
MaxOf(S) == IF S = {} THEN 0 ELSE CHOOSE x \in S : \A y \in S : y <= x

NextServiceId(svc) == MaxOf(DOMAIN svc) + 1

Put(f, k, v) == [x \in DOMAIN f \cup {k} |-> IF x = k THEN v ELSE f[x]]

Remove(f, ks) == [x \in DOMAIN f \ ks |-> f[x]]

\* A row returned through response_model schemas.Service: its required
\* fields are not null (of the columns a request here can set to null).
ValidService(row) == \A f \in {"service_type", "status"} : row[f] # None

\* A row returned through response_model schemas.Business, which embeds the
\* services of the business: no required field is null.
ValidBusiness(d, business_id) ==
    /\ \A f \in {"industry", "province", "city", "account_status"} :
          d.businesses[business_id][f] # None
    /\ \A s \in get_services_by_business(d, business_id) : ValidService(d.services[s])


\* ------------------------------------------------------- crud: businesses
RECURSIVE PySum(_)
PySum(prices) == IF prices = <<>> THEN 0 ELSE Head(prices) + PySum(Tail(prices))

BusinessRow(data, total_monthly_revenue) ==
    [company_name |-> data.company_name, email |-> data.email, phone |-> data.phone,
     industry |-> data.industry, province |-> data.province, city |-> data.city,
     account_status |-> data.account_status,
     total_monthly_revenue |-> total_monthly_revenue]

ServiceRow(service, business_id) ==
    [business_id |-> business_id, service_type |-> service.service_type,
     monthly_price |-> service.monthly_price, status |-> service.status]

\* db.add(db_business); db.commit() of create_business: the INSERT is refused
\* for a NULL primary key and for a primary key already in the table.
BusinessInsertable(d, id) == id # None /\ id \notin DOMAIN d.businesses

add_business_without_total(d, business) ==
    LET id == IF HasAttr(business, "id") THEN business.id ELSE None
    IN [d EXCEPT !.businesses = Put(d.businesses, id, BusinessRow(business.data, 0))]

add_business(d, business) ==
    LET total_monthly_revenue == PySum([i \in 1..Len(business.services) |-> business.services[i].monthly_price])
        id == IF HasAttr(business, "id") THEN business.id ELSE None
    IN [d EXCEPT !.businesses = Put(d.businesses, id, BusinessRow(business.data, total_monthly_revenue))]

RECURSIVE add_services(_, _, _)
add_services(svc, provided, business_id) ==
    IF provided = <<>> THEN svc
    ELSE add_services(Put(svc, NextServiceId(svc), ServiceRow(Head(provided), business_id)),
                      Tail(provided), business_id)

create_business(d, business) ==
    LET id == IF HasAttr(business, "id") THEN business.id ELSE None
        d1 == add_business(d, business)
    IN [d1 EXCEPT !.services = add_services(d1.services, business.services, id)]

SetAttrs(row, update_data) ==
    [f \in DOMAIN row |-> IF f \in DOMAIN update_data THEN update_data[f] ELSE row[f]]

update_business(d, business_id, business_update) ==
    [d EXCEPT !.businesses[business_id] = SetAttrs(@, business_update)]

\* db.delete(db_business): the relationship's cascade deletes the services
\* rows that reference the business, then the business row.
delete_business_without_cascade(d, business_id) ==
    [d EXCEPT !.businesses = Remove(@, {business_id})]

delete_business(d, business_id) ==
    [d EXCEPT !.businesses = Remove(@, {business_id}),
              !.services = Remove(@, get_services_by_business(d, business_id))]

\* --------------------------------------------------------- crud: services
revenue_query(d, business_id) ==
    OrZero(func_sum(d.services, get_services_by_business(d, business_id)))

write_revenue_incrementing(d, business_id, total_revenue) ==
    IF get_business(d, business_id) # None
    THEN [d EXCEPT !.businesses[business_id].total_monthly_revenue = @ + total_revenue]
    ELSE d

write_revenue(d, business_id, total_revenue) ==
    IF get_business(d, business_id) # None
    THEN [d EXCEPT !.businesses[business_id].total_monthly_revenue = total_revenue]
    ELSE d

update_business_revenue(d, business_id) ==
    LET total_revenue == revenue_query(d, business_id)
        d1 == write_revenue(d, business_id, total_revenue)
    IN [d1 EXCEPT !.calls = Append(@, [business_id |-> business_id, total_revenue |-> total_revenue])]

add_service_at_first_id(d, service, business_id) ==
    [d EXCEPT !.services = Put(@, 1, ServiceRow(service, business_id))]

add_service(d, service, business_id) ==
    [d EXCEPT !.services = Put(@, NextServiceId(@), ServiceRow(service, business_id))]

create_service(d, service, business_id) ==
    update_business_revenue(add_service(d, service, business_id), business_id)

\* setattr(db_service, field, value) for every item of the mapping; a key that
\* is no column of the row sets nothing that is stored, the key "id" moves the
\* row to another primary key.
NewServiceId(service_id, service_update) ==
    IF "id" \in DOMAIN service_update THEN service_update["id"] ELSE service_id

set_service(d, service_id, service_update) ==
    [d EXCEPT !.services = Put(Remove(@, {service_id}), NewServiceId(service_id, service_update),
                               SetAttrs(d.services[service_id], service_update))]

update_service_when_priced(d, service_id, service_update) ==
    LET d1 == set_service(d, service_id, service_update)
    IN IF "monthly_price" \in DOMAIN service_update
       THEN update_business_revenue(d1, d1.services[NewServiceId(service_id, service_update)].business_id)
       ELSE d1

update_service(d, service_id, service_update) ==
    LET d1 == set_service(d, service_id, service_update)
    IN update_business_revenue(d1, d1.services[NewServiceId(service_id, service_update)].business_id)

remove_service_of_owner(d, service_id) ==
    [d EXCEPT !.services = Remove(@, get_services_by_business(d, d.services[service_id].business_id))]

remove_service(d, service_id) ==
    [d EXCEPT !.services = Remove(@, {service_id})]

delete_service(d, service_id) ==
    LET business_id == d.services[service_id].business_id
    IN update_business_revenue(remove_service(d, service_id), business_id)


\* ------------------------------------------------------------ request inputs
EmptyDict == [k \in {} |-> 0]

\* schemas.BusinessUpdate after dict(exclude_unset=True): the fields the
\* caller set, among the declared ones.
BusinessUpdate ==
    { EmptyDict,
      [industry |-> "Healthcare"],
      [city |-> "Ottawa", account_status |-> "Suspended"],
      [company_name |-> <<"a">>, province |-> "QC"] }

\* The fields that schemas.BusinessUpdate declares, among those of the rows.
BusinessUpdateFields ==
    {"company_name", "email", "phone", "industry", "province", "city", "account_status"}

\* The JSON bodies of PUT /businesses/{id}: any object.
BusinessUpdateBodies ==
    BusinessUpdate \cup {[total_monthly_revenue |-> 2, city |-> "Ottawa"], [id |-> "B2"]}

ParseBusinessUpdate_keeping_all(body) == body

\* The body parsed as schemas.BusinessUpdate, then dict(exclude_unset=True):
\* the declared fields that the body sets; the others are ignored.
ParseBusinessUpdate(body) == [f \in DOMAIN body \cap BusinessUpdateFields |-> body[f]]

\* The body of PUT /services/{id}: any dict.
ServiceUpdate ==
    { EmptyDict }
    \cup { [monthly_price |-> p] : p \in Prices }
    \cup { [business_id |-> b] : b \in BizIds }
    \cup { [service_type |-> t] : t \in ServiceTypes }
    \cup { [id |-> i] : i \in ServiceIds }

\* --------------------------------------------- handlers, one request at a time
\* The locals of a worker: the outcome of the request it served last, the
\* business_id, total_revenue and loaded total_monthly_revenue of the
\* update_business_revenue it runs, whether that call found no business
\* (skipped), and the services still to be added.
Locals(status, business_id, body) ==
    [status |-> status, business_id |-> business_id, total_revenue |-> 0, loaded |-> 0,
     skipped |-> FALSE, body |-> body]

Init ==
    /\ businesses = EmptyDict
    /\ services = EmptyDict
    /\ last = NoRequest
    /\ pc = [w \in Workers |-> "idle"]
    /\ req = [w \in Workers |-> Locals("ok", None, <<>>)]

Commit(d) ==
    /\ businesses' = d.businesses
    /\ services' = d.services
    /\ UNCHANGED <<pc, req>>

Rejected_upserting(op, status, business_id, service_id) ==
    /\ last' = Response(op, status, business_id, service_id)
    /\ businesses' = IF op = "update_business"
                     THEN Put(businesses, business_id, BusinessRow(AcmeCorp, 0))
                     ELSE businesses
    /\ UNCHANGED <<services, pc, req>>

Rejected(op, status, business_id, service_id) ==
    /\ last' = Response(op, status, business_id, service_id)
    /\ UNCHANGED <<businesses, services, pc, req>>

\* main.create_business: the check for a business with the same id, then
\* crud.create_business; supplied is the id the caller gave, if any.
CreateBusinessAs(business, supplied) ==
    LET id == IF HasAttr(business, "id") THEN business.id ELSE None
    IN IF HasAttr(business, "id") /\ get_business(db, business.id) # None
       THEN /\ last' = [Response("create_business", "DuplicateIdentifier", id, 0) EXCEPT !.supplied = supplied]
            /\ UNCHANGED <<businesses, services, pc, req>>
       ELSE IF ~BusinessInsertable(db, id)
       THEN /\ last' = [Response("create_business", "IntegrityError", id, 0) EXCEPT !.supplied = supplied]
            /\ UNCHANGED <<businesses, services, pc, req>>
       ELSE /\ MaxOf(DOMAIN services) + Len(business.services) <= MaxServiceId
            /\ Commit(create_business(db, business))
            /\ last' = [Response("create_business", "ok", id, 0)
                          EXCEPT !.body = business.services, !.supplied = supplied]

\* main.create_business called with an object that may carry an id
CreateBusiness(business) ==
    /\ HasAttr(business, "services")
    /\ CreateBusinessAs(business, IF HasAttr(business, "id") THEN business.id ELSE None)

\* The JSON body parsed as schemas.BusinessCreate, which declares no id field:
\* an "id" of the body is ignored.
ParseBusinessCreate(body) == [f \in DOMAIN body \ {"id"} |-> body[f]]

\* POST /api/v1/businesses with a JSON body
PostBusiness(body) ==
    /\ HasAttr(body, "services")
    /\ CreateBusinessAs(ParseBusinessCreate(body), IF HasAttr(body, "id") THEN body.id ELSE None)

\* PUT /api/v1/businesses/{business_id}
UpdateBusiness(business_id, body) ==
    LET business_update == ParseBusinessUpdate(body)
    IN IF get_business(db, business_id) = None
       THEN Rejected("update_business", "NotFound", business_id, 0)
       ELSE LET d == update_business(db, business_id, business_update)
                status == IF ValidBusiness(d, business_id) THEN "ok" ELSE "ResponseValidationError"
            IN /\ Commit(d)
               /\ last' = [Response("update_business", status, business_id, 0)
                             EXCEPT !.body = <<business_update>>]

\* DELETE /api/v1/businesses/{business_id}
DeleteBusiness(business_id) ==
    IF get_business(db, business_id) = None
    THEN Rejected("delete_business", "NotFound", business_id, 0)
    ELSE /\ Commit(delete_business(db, business_id))
         /\ last' = [Response("delete_business", "ok", business_id, 0)
                       EXCEPT !.removed = get_services_by_business(db, business_id)]

\* POST /api/v1/businesses/{business_id}/services
CreateService(business_id, service) ==
    IF get_business(db, business_id) = None
    THEN Rejected("create_service", "NotFound", business_id, 0)
    ELSE /\ NextServiceId(services) <= MaxServiceId
         /\ LET d == create_service(db, service, business_id)
            IN /\ Commit(d)
               /\ last' = [Response("create_service", "ok", business_id, NextServiceId(services))
                             EXCEPT !.reconciled = d.calls]

\* The commit of update_service is refused when the new primary key is taken,
\* and, by a store that enforces the foreign key, when the new business_id
\* references no business.
ServiceUpdateRefused(d, service_id, service_update, foreign_keys) ==
    \/ NewServiceId(service_id, service_update) \in DOMAIN d.services \ {service_id}
    \/ /\ foreign_keys
       /\ "business_id" \in DOMAIN service_update
       /\ get_business(d, service_update.business_id) = None

\* PUT /api/v1/services/{service_id}
UpdateService(service_id, service_update) ==
    IF get_service(db, service_id) = 0
    THEN Rejected("update_service", "NotFound", None, service_id)
    ELSE \E foreign_keys \in {f \in BOOLEAN : f => ServiceUpdateRefused(db, service_id, service_update, TRUE)} :
           IF ServiceUpdateRefused(db, service_id, service_update, foreign_keys)
           THEN Rejected("update_service", "IntegrityError", None, service_id)
           ELSE LET d == update_service(db, service_id, service_update)
                    id == NewServiceId(service_id, service_update)
                    status == IF ValidService(d.services[id]) THEN "ok" ELSE "ResponseValidationError"
                IN /\ Commit(d)
                   /\ last' = [Response("update_service", status, d.services[id].business_id, id)
                                 EXCEPT !.reconciled = d.calls, !.body = service_update]

\* DELETE /api/v1/services/{service_id}
DeleteService(service_id) ==
    IF get_service(db, service_id) = 0
    THEN Rejected("delete_service", "NotFound", None, service_id)
    ELSE LET d == delete_service(db, service_id)
         IN /\ Commit(d)
            /\ last' = [Response("delete_service", "ok", services[service_id].business_id, service_id)
                          EXCEPT !.reconciled = d.calls, !.removed = {service_id}]

\* update_business_revenue called on its own.
Reconcile(business_id) ==
    LET d == update_business_revenue(db, business_id)
    IN /\ Commit(d)
       /\ last' = [Response("update_business_revenue", "ok", business_id, 0)
                     EXCEPT !.reconciled = d.calls,
                            !.again = (last.op = "update_business_revenue" /\ last.business_id = business_id)]

Next ==
    \/ \E business \in RevenueBusinessCreate : CreateBusiness(business)
    \/ \E business_id \in BizIds : DeleteBusiness(business_id)
    \/ \E business_id \in BizIds, service \in ServiceCreate : CreateService(business_id, service)
    \/ \E service_id \in ServiceIds, service_update \in ServiceUpdate : UpdateService(service_id, service_update)
    \/ \E service_id \in ServiceIds : DeleteService(service_id)
    \/ \E business_id \in BizIds : Reconcile(business_id)

Spec == Init /\ [][Next]_vars

\* ------------------------------------- the same handlers when the store fails
\* A StoreFailure is an exception out of a query or a commit. No handler
\* catches it or rolls back: what the session has flushed and not committed
\* is dropped with the session, what it has committed stays.
\* stage "commit": the first db.commit() of the handler raises;
\* stage "reconcile": a statement of update_business_revenue raises;
\* stage "services": the second db.commit() of create_business raises.
CreateServiceFails(business_id, service, stage) ==
    /\ get_business(db, business_id) # None
    /\ NextServiceId(services) <= MaxServiceId
    /\ Commit(IF stage = "commit" THEN db ELSE add_service(db, service, business_id))
    /\ last' = Response("create_service", "StoreFailure", business_id, NextServiceId(services))

UpdateServiceFails(service_id, service_update, stage) ==
    /\ get_service(db, service_id) # 0
    /\ ~ServiceUpdateRefused(db, service_id, service_update, FALSE)
    /\ Commit(IF stage = "commit" THEN db ELSE set_service(db, service_id, service_update))
    /\ last' = [Response("update_service", "StoreFailure", None, service_id) EXCEPT !.body = service_update]

DeleteServiceFails(service_id, stage) ==
    /\ get_service(db, service_id) # 0
    /\ Commit(IF stage = "commit" THEN db ELSE remove_service(db, service_id))
    /\ last' = Response("delete_service", "StoreFailure", services[service_id].business_id, service_id)

CreateBusinessFails(business, stage) ==
    LET id == IF HasAttr(business, "id") THEN business.id ELSE None
    IN /\ BusinessInsertable(db, id)
       /\ Commit(IF stage = "commit" THEN db ELSE add_business(db, business))
       /\ last' = [Response("create_business", "StoreFailure", id, 0) EXCEPT !.body = business.services]

NextFail ==
    \/ Next
    \/ \E business_id \in BizIds, service \in ServiceCreate, stage \in {"commit", "reconcile"} :
          CreateServiceFails(business_id, service, stage)
    \/ \E service_id \in ServiceIds, service_update \in ServiceUpdate, stage \in {"commit", "reconcile"} :
          UpdateServiceFails(service_id, service_update, stage)
    \/ \E service_id \in ServiceIds, stage \in {"commit", "reconcile"} :
          DeleteServiceFails(service_id, stage)
    \/ \E business \in RevenueBusinessCreate, stage \in {"commit", "services"} :
          CreateBusinessFails(business, stage)

SpecFail == Init /\ [][NextFail]_vars

\* ------------------------------------------- requests served concurrently
\* Each worker serves one request at a time, statement by statement; a step
\* is one statement, or the statements up to and including a db.commit().
Store(d) ==
    /\ businesses' = d.businesses
    /\ services' = d.services
    /\ UNCHANGED last

Goto(w, label, locals) ==
    /\ pc' = [pc EXCEPT ![w] = label]
    /\ req' = [req EXCEPT ![w] = locals]

Done(w, status) == Goto(w, "idle", Locals(status, None, <<>>))

Answer(w, status) ==
    /\ Done(w, status)
    /\ UNCHANGED <<businesses, services, last>>

\* main.create_business and crud.create_business up to its first db.commit()
StartCreateBusiness(w, business) ==
    LET id == IF HasAttr(business, "id") THEN business.id ELSE None
    IN /\ pc[w] = "idle"
       /\ IF HasAttr(business, "id") /\ get_business(db, business.id) # None
          THEN Answer(w, "DuplicateIdentifier")
          ELSE IF ~BusinessInsertable(db, id)
          THEN Answer(w, "IntegrityError")
          ELSE /\ Store(add_business(db, business))
               /\ Goto(w, "add_services", Locals("none", id, business.services))

\* A store that enforces the foreign key refuses a services row whose
\* business_id references no business.
ServiceInsertRefused(d, business_id, foreign_keys) ==
    foreign_keys /\ get_business(d, business_id) = None

\* crud.create_business from its loop over business.services to the end
AddServices(w) ==
    /\ pc[w] = "add_services"
    /\ MaxOf(DOMAIN services) + Len(req[w].body) <= MaxServiceId
    /\ \E foreign_keys \in {f \in BOOLEAN : f => (req[w].body # <<>> /\ ServiceInsertRefused(db, req[w].business_id, TRUE))} :
         IF foreign_keys
         THEN /\ Done(w, "IntegrityError")
              /\ UNCHANGED <<businesses, services, last>>
         ELSE /\ Store([db EXCEPT !.services = add_services(@, req[w].body, req[w].business_id)])
              /\ Done(w, "ok")

\* main.delete_business and crud.delete_business: one transaction
DeleteBusinessStep(w, business_id) ==
    /\ pc[w] = "idle"
    /\ IF get_business(db, business_id) = None
       THEN Answer(w, "NotFound")
       ELSE /\ Store(delete_business(db, business_id))
            /\ Done(w, "ok")

\* main.create_service: the lookup of the business
CheckBusiness(w, business_id, service) ==
    /\ pc[w] = "idle"
    /\ IF get_business(db, business_id) = None
       THEN Answer(w, "NotFound")
       ELSE /\ Goto(w, "add", Locals("none", business_id, <<service>>))
            /\ UNCHANGED <<businesses, services, last>>

\* crud.create_service up to its db.commit()
AddService(w) ==
    /\ pc[w] = "add"
    /\ NextServiceId(services) <= MaxServiceId
    /\ \E foreign_keys \in {f \in BOOLEAN : f => ServiceInsertRefused(db, req[w].business_id, TRUE)} :
         IF foreign_keys
         THEN /\ Done(w, "IntegrityError")
              /\ UNCHANGED <<businesses, services, last>>
         ELSE /\ Store(add_service(db, req[w].body[1], req[w].business_id))
              /\ Goto(w, "sum", Locals("none", req[w].business_id, <<>>))

\* crud.update_service up to its db.commit()
ChangeService(w, service_id, service_update) ==
    /\ pc[w] = "idle"
    /\ IF get_service(db, service_id) = 0
       THEN Answer(w, "NotFound")
       ELSE \E foreign_keys \in {f \in BOOLEAN : f => ServiceUpdateRefused(db, service_id, service_update, TRUE)} :
              IF ServiceUpdateRefused(db, service_id, service_update, foreign_keys)
              THEN Answer(w, "IntegrityError")
              ELSE LET d == set_service(db, service_id, service_update)
                   IN /\ Store(d)
                      /\ Goto(w, "sum", Locals("none", d.services[NewServiceId(service_id, service_update)].business_id, <<>>))

\* crud.delete_service up to its db.commit()
RemoveService(w, service_id) ==
    /\ pc[w] = "idle"
    /\ IF get_service(db, service_id) = 0
       THEN Answer(w, "NotFound")
       ELSE /\ Store(remove_service(db, service_id))
            /\ Goto(w, "sum", Locals("none", services[service_id].business_id, <<>>))

\* update_business_revenue called on its own
CallReconcile(w, business_id) ==
    /\ pc[w] = "idle"
    /\ Goto(w, "sum", Locals("none", business_id, <<>>))
    /\ UNCHANGED <<businesses, services, last>>

\* update_business_revenue: the query of the sum
QuerySum(w) ==
    /\ pc[w] = "sum"
    /\ Goto(w, "load", [req[w] EXCEPT !.total_revenue = revenue_query(db, req[w].business_id)])
    /\ UNCHANGED <<businesses, services, last>>

\* update_business_revenue: get_business and the test of its result
LoadBusiness(w) ==
    /\ pc[w] = "load"
    /\ IF get_business(db, req[w].business_id) = None
       THEN Goto(w, "idle", [Locals("ok", None, <<>>) EXCEPT !.skipped = TRUE])
       ELSE Goto(w, "write", [req[w] EXCEPT !.loaded = businesses[req[w].business_id].total_monthly_revenue])
    /\ UNCHANGED <<businesses, services, last>>

flush_revenue_merging(d, business_id, loaded, total_revenue) ==
    IF get_business(d, business_id) = None
    THEN [status |-> "ok", db |-> [d EXCEPT !.businesses = Put(@, business_id, BusinessRow(AcmeCorp, total_revenue))]]
    ELSE [status |-> "ok", db |-> write_revenue(d, business_id, total_revenue)]

\* The assignment to the loaded row and db.commit(). The session flushes an
\* UPDATE of the row only if the value assigned differs from the one loaded,
\* and the UPDATE of a row deleted since it was loaded is an error.
flush_revenue(d, business_id, loaded, total_revenue) ==
    IF loaded = total_revenue
    THEN [status |-> "ok", db |-> d]
    ELSE IF get_business(d, business_id) = None
    THEN [status |-> "StaleDataError", db |-> d]
    ELSE [status |-> "ok", db |-> write_revenue(d, business_id, total_revenue)]

\* update_business_revenue: the assignment and db.commit()
WriteRevenue(w) ==
    LET flushed == flush_revenue(db, req[w].business_id, req[w].loaded, req[w].total_revenue)
    IN /\ pc[w] = "write"
       /\ Store(flushed.db)
       /\ Done(w, flushed.status)

PriceUpdate == {u \in ServiceUpdate : DOMAIN u \subseteq {"monthly_price"}}

\* The concurrent requests create one business, with or without services.
OneBusiness(creates) == {business \in creates : HasAttr(business, "id") => business.id = "B1"}

BareBusinessCreate == OneBusiness(BusinessCreate({AcmeCorp}, 0))

ConcBusinessCreate == OneBusiness(RevenueBusinessCreate)

\* Service creates, updates of the price and deletes, served concurrently.
NextRace ==
    \E w \in Workers :
       \/ \E business \in BareBusinessCreate : StartCreateBusiness(w, business)
       \/ AddServices(w)
       \/ \E business_id \in BizIds, service \in ServiceCreate : CheckBusiness(w, business_id, service)
       \/ AddService(w)
       \/ \E service_id \in ServiceIds, service_update \in PriceUpdate : ChangeService(w, service_id, service_update)
       \/ \E service_id \in ServiceIds : RemoveService(w, service_id)
       \/ QuerySum(w)
       \/ LoadBusiness(w)
       \/ WriteRevenue(w)

SpecRace == Init /\ [][NextRace]_vars

\* Every request, served concurrently.
NextConc ==
    \E w \in Workers :
       \/ \E business \in ConcBusinessCreate : StartCreateBusiness(w, business)
       \/ AddServices(w)
       \/ \E business_id \in BizIds : DeleteBusinessStep(w, business_id)
       \/ \E business_id \in BizIds, service \in ServiceCreate : CheckBusiness(w, business_id, service)
       \/ AddService(w)
       \/ \E service_id \in ServiceIds, service_update \in ServiceUpdate : ChangeService(w, service_id, service_update)
       \/ \E service_id \in ServiceIds : RemoveService(w, service_id)
       \/ \E business_id \in BizIds : CallReconcile(w, business_id)
       \/ QuerySum(w)
       \/ LoadBusiness(w)
       \/ WriteRevenue(w)

SpecConc == Init /\ [][NextConc]_vars


\* ------------------------------------------------ listing the businesses
\* Text is a sequence of characters. lower() of a character:
Lower(c) == IF c = "T" THEN "t" ELSE IF c = "E" THEN "e" ELSE c

\* LIKE: % matches any run of characters, _ any one character, and any other
\* character itself; ilike compares without regard to case.
RECURSIVE LikeMatch(_, _)
LikeMatch(pattern, text) ==
    IF pattern = <<>> THEN text = <<>>
    ELSE IF Head(pattern) = "%"
    THEN LikeMatch(Tail(pattern), text) \/ (text # <<>> /\ LikeMatch(pattern, Tail(text)))
    ELSE /\ text # <<>>
         /\ Head(pattern) = "_" \/ Lower(Head(pattern)) = Lower(Head(text))
         /\ LikeMatch(Tail(pattern), Tail(text))

ilike(column, pattern) == LikeMatch(pattern, column)

\* f"%{search}%"
SearchPattern(search) == <<"%">> \o search \o <<"%">>

\* `if search:` on an Optional[str] argument: given, and not the empty string
TruthyText(q, name) == HasAttr(q, name) /\ q[name] # <<>>

Truthy_when_given(q, name) == HasAttr(q, name)

Truthy(q, name) == HasAttr(q, name) /\ q[name] # ""

Min(a, b) == IF a < b THEN a ELSE b

OffsetLimit_one_more(rows, skip, limit) == SubSeq(rows, skip + 1, Min(skip + limit + 1, Len(rows)))

\* query.offset(skip).limit(limit).all()
OffsetLimit(rows, skip, limit) == SubSeq(rows, skip + 1, Min(skip + limit, Len(rows)))

\* The orders in which the store may return the rows of a query that has no
\* ORDER BY.
RowOrders(d) ==
    {order \in [1..Cardinality(DOMAIN d.businesses) -> DOMAIN d.businesses] :
        \A i, j \in DOMAIN order : order[i] = order[j] => i = j}

get_businesses_ignoring_city(d, order, skip, limit, q) ==
    LET row(id) == d.businesses[id]
        query1 == IF TruthyText(q, "search")
                  THEN SelectSeq(order, LAMBDA id :
                           \/ ilike(row(id).company_name, SearchPattern(q.search))
                           \/ ilike(row(id).email, SearchPattern(q.search))
                           \/ ilike(row(id).phone, SearchPattern(q.search)))
                  ELSE order
        query2 == IF Truthy(q, "industry")
                  THEN SelectSeq(query1, LAMBDA id : row(id).industry = q.industry)
                  ELSE query1
        query3 == IF Truthy(q, "province")
                  THEN SelectSeq(query2, LAMBDA id : row(id).province = q.province)
                  ELSE query2
        query5 == IF Truthy(q, "account_status")
                  THEN SelectSeq(query3, LAMBDA id : row(id).account_status = q.account_status)
                  ELSE query3
    IN OffsetLimit(query5, skip, limit)

\* crud.get_businesses: the ids of the rows returned, q the keyword arguments
\* given and order the order in which the store scans the table.
get_businesses(d, order, skip, limit, q) ==
    LET row(id) == d.businesses[id]
        query0 == order
        query1 == IF TruthyText(q, "search")
                  THEN SelectSeq(query0, LAMBDA id :
                           \/ ilike(row(id).company_name, SearchPattern(q.search))
                           \/ ilike(row(id).email, SearchPattern(q.search))
                           \/ ilike(row(id).phone, SearchPattern(q.search)))
                  ELSE query0
        query2 == IF Truthy(q, "industry")
                  THEN SelectSeq(query1, LAMBDA id : row(id).industry = q.industry)
                  ELSE query1
        query3 == IF Truthy(q, "province")
                  THEN SelectSeq(query2, LAMBDA id : row(id).province = q.province)
                  ELSE query2
        query4 == IF Truthy(q, "city")
                  THEN SelectSeq(query3, LAMBDA id : row(id).city = q.city)
                  ELSE query3
        query5 == IF Truthy(q, "account_status")
                  THEN SelectSeq(query4, LAMBDA id : row(id).account_status = q.account_status)
                  ELSE query4
    IN OffsetLimit(query5, skip, limit)

get_businesses_count_ignoring_city(d, q) ==
    Cardinality({id \in DOMAIN d.businesses :
        /\ Truthy(q, "industry") => d.businesses[id].industry = q.industry
        /\ Truthy(q, "province") => d.businesses[id].province = q.province
        /\ Truthy(q, "account_status") => d.businesses[id].account_status = q.account_status})

\* crud.get_businesses_count: query.count() of the rows its own filters keep
get_businesses_count(d, q) ==
    LET row(id) == d.businesses[id]
        query0 == DOMAIN d.businesses
        query1 == IF TruthyText(q, "search")
                  THEN {id \in query0 :
                           \/ ilike(row(id).company_name, SearchPattern(q.search))
                           \/ ilike(row(id).email, SearchPattern(q.search))
                           \/ ilike(row(id).phone, SearchPattern(q.search))}
                  ELSE query0
        query2 == IF Truthy(q, "industry") THEN {id \in query1 : row(id).industry = q.industry} ELSE query1
        query3 == IF Truthy(q, "province") THEN {id \in query2 : row(id).province = q.province} ELSE query2
        query4 == IF Truthy(q, "city") THEN {id \in query3 : row(id).city = q.city} ELSE query3
        query5 == IF Truthy(q, "account_status")
                  THEN {id \in query4 : row(id).account_status = q.account_status}
                  ELSE query4
    IN Cardinality(query5)

Floor_for_ceil(total, limit) == total \div limit

\* math.ceil(total / limit)
Ceil(total, limit) == (total + limit - 1) \div limit

Merge(f, g) == [k \in DOMAIN f \cup DOMAIN g |-> IF k \in DOMAIN f THEN f[k] ELSE g[k]]

\* The page, size and pages of a listing response.
page_metadata(skip, limit, total) ==
    [page |-> IF limit > 0 THEN (skip \div limit) + 1 ELSE 1,
     size |-> limit,
     pages |-> IF limit > 0 THEN Ceil(total, limit) ELSE 0]

\* The search argument: not given, empty, or a text (with or without a
\* wildcard of LIKE).
SearchArgs == {EmptyDict} \cup {[search |-> x] : x \in {<<>>, <<"t">>, <<"_", "E">>}}

\* The equality filters given: each is optional, and may be the empty string.
FilterArgs ==
    {Merge(i, c) : i \in {EmptyDict, [industry |-> ""], [industry |-> "Technology"]},
                   c \in {EmptyDict, [city |-> "Toronto"]}}
    \cup {[province |-> "QC"], [province |-> "ON", account_status |-> "Active"]}

ListQueries == {Merge(x, f) : x \in SearchArgs, f \in FilterArgs}

\* GET /api/v1/businesses; limit is validated by Query(ge=1).
ReadBusinesses(skip, limit, q) ==
    IF limit < 1
    THEN Rejected("read_businesses", "ValidationError", None, 0)
    ELSE \E order \in RowOrders(db) :
           IF \E id \in DOMAIN businesses :
                 /\ \E i \in DOMAIN get_businesses(db, order, skip, limit, q) :
                       get_businesses(db, order, skip, limit, q)[i] = id
                 /\ ~ValidBusiness(db, id)
           THEN Rejected("read_businesses", "ResponseValidationError", None, 0)
           ELSE
           /\ last' = Merge([op |-> "read_businesses", status |-> "ok",
                              skip |-> skip, limit |-> limit, query |-> q,
                              businesses |-> get_businesses(db, order, skip, limit, q),
                              total |-> get_businesses_count(db, q)],
                             page_metadata(skip, limit, get_businesses_count(db, q)))
           /\ UNCHANGED <<businesses, services, pc, req>>

ListBusinessCreate == BusinessCreate(BusinessBase, 0)

NextList ==
    \/ \E business \in ListBusinessCreate : CreateBusiness(business)
    \/ \E business_id \in BizIds : DeleteBusiness(business_id)
    \/ \E skip \in 0..MaxSkip, limit \in 0..MaxLimit, q \in ListQueries : ReadBusinesses(skip, limit, q)

SpecList == Init /\ [][NextList]_vars

\* --------------------------------------------------- listing the services
\* get_services(..., limit: int = 100, ...)
DefaultLimit == 100

\* the ids of a table in ascending order (no id exceeds DefaultLimit + 1 + MaxServiceId)
SortedIds(S) == SelectSeq([id \in 1..(DefaultLimit + 1 + MaxServiceId) |-> id], LAMBDA id : id \in S)

Reverse(s) == [i \in 1..Len(s) |-> s[Len(s) + 1 - i]]

\* Orders in which the store may return the services rows of a query that has
\* no ORDER BY: by ascending and by descending id.
ServiceOrders(d) == {SortedIds(DOMAIN d.services), Reverse(SortedIds(DOMAIN d.services))}

\* crud.get_services: the ids of the rows returned, q the keyword arguments
\* given and order the order in which the store scans the table.
get_services(d, order, skip, limit, q) ==
    LET row(id) == d.services[id]
        query0 == order
        query1 == IF Truthy(q, "service_type")
                  THEN SelectSeq(query0, LAMBDA id : row(id).service_type = q.service_type)
                  ELSE query0
        query2 == IF Truthy(q, "status")
                  THEN SelectSeq(query1, LAMBDA id : row(id).status = q.status)
                  ELSE query1
        query3 == IF Truthy(q, "business_id")
                  THEN SelectSeq(query2, LAMBDA id : row(id).business_id = q.business_id)
                  ELSE query2
    IN OffsetLimit(query3, skip, limit)

\* The filters of a services listing: each is optional.
ServiceQueries ==
    {Merge(t, b) : t \in {EmptyDict, [service_type |-> "Internet"]},
                   b \in {EmptyDict, [business_id |-> "B1"]}}
    \cup {[status |-> ""], [status |-> "active"]}

\* GET /api/v1/services; limit is validated by Query(ge=1). The total is the
\* length of a second get_services, called without skip and limit.
ReadServices(skip, limit, q) ==
    IF limit < 1
    THEN Rejected("read_services", "ValidationError", None, 0)
    ELSE \E order \in ServiceOrders(db) :
           LET total == Len(get_services(db, order, 0, DefaultLimit, q))
           IN /\ last' = Merge([op |-> "read_services", status |-> "ok",
                                 skip |-> skip, limit |-> limit, query |-> q,
                                 services |-> get_services(db, order, skip, limit, q),
                                 total |-> total],
                                page_metadata(skip, limit, total))
              /\ UNCHANGED <<businesses, services, pc, req>>

\* crud.get_services and crud.get_businesses called with any skip and limit
GetServices(skip, limit, q) ==
    \E order \in ServiceOrders(db) :
       /\ last' = [op |-> "get_services", status |-> "ok", skip |-> skip, limit |-> limit,
                   query |-> q, services |-> get_services(db, order, skip, limit, q)]
       /\ UNCHANGED <<businesses, services, pc, req>>

GetBusinesses(skip, limit, q) ==
    \E order \in RowOrders(db) :
       /\ last' = [op |-> "get_businesses", status |-> "ok", skip |-> skip, limit |-> limit,
                   query |-> q, businesses |-> get_businesses(db, order, skip, limit, q)]
       /\ UNCHANGED <<businesses, services, pc, req>>

\* The metadata of a listing response computed for any skip, limit and total
PageMetadata(skip, limit, total) ==
    /\ last' = Merge([op |-> "page_metadata", status |-> "ok",
                      skip |-> skip, limit |-> limit, total |-> total],
                     page_metadata(skip, limit, total))
    /\ UNCHANGED <<businesses, services, pc, req>>

\* A services table of n rows: the first m are Internet services of B1, the
\* others Mobile services of B2.
ServiceStore(n, m) ==
    [id \in 1..n |->
        IF id <= m
        THEN ServiceRow([service_type |-> "Internet", monthly_price |-> 1, status |-> "active"], "B1")
        ELSE ServiceRow([service_type |-> "Mobile", monthly_price |-> 2, status |-> "suspended"], "B2")]

StoreSizes == {0, 2, DefaultLimit, DefaultLimit + 1}

\* The store after the businesses B1 and B2 and n services were created.
InitPaging ==
    /\ \E n \in StoreSizes : \E m \in {1, n} :
          /\ m <= n
          /\ services = ServiceStore(n, m)
          /\ businesses = [b \in BizIds |->
                              BusinessRow(AcmeCorp, IF b = "B1" THEN m ELSE 2 * (n - m))]
    /\ last = NoRequest
    /\ pc = [w \in Workers |-> "idle"]
    /\ req = [w \in Workers |-> Locals("ok", None, <<>>)]

NextPaging ==
    \/ \E skip \in 0..MaxSkip, limit \in 0..MaxLimit, q \in ServiceQueries : ReadServices(skip, limit, q)
    \/ \E skip \in 0..MaxSkip, limit \in 0..MaxLimit, q \in ServiceQueries : GetServices(skip, limit, q)
    \/ \E skip \in 0..MaxSkip, limit \in 0..MaxLimit, q \in FilterArgs : GetBusinesses(skip, limit, q)
    \/ \E skip \in 0..MaxSkip, limit \in 0..MaxLimit, total \in 0..(MaxSkip + MaxLimit + 1) :
          PageMetadata(skip, limit, total)

SpecPaging == InitPaging /\ [][NextPaging]_vars

\* ------------------------------------- updates of businesses and services
OneServiceBusinessCreate == BusinessCreate({AcmeCorp}, 1)

NextCrud ==
    \/ \E business \in OneServiceBusinessCreate : CreateBusiness(business)
    \/ \E business_id \in BizIds, body \in BusinessUpdateBodies : UpdateBusiness(business_id, body)
    \/ \E business_id \in BizIds : DeleteBusiness(business_id)
    \/ \E service_id \in ServiceIds, service_update \in PriceUpdate : UpdateService(service_id, service_update)
    \/ \E service_id \in ServiceIds : DeleteService(service_id)

SpecCrud == Init /\ [][NextCrud]_vars

\* ------------------------------------------ businesses created over HTTP
NextPost ==
    \/ \E business \in OneServiceBusinessCreate : CreateBusiness(business)
    \/ \E body \in OneServiceBusinessCreate : PostBusiness(body)
    \/ \E business_id \in BizIds : DeleteBusiness(business_id)

SpecPost == Init /\ [][NextPost]_vars

\* ---------------------------------------------------------------- analytics
\* A quotient a / b of Python (a float) is kept exact, as numerator and
\* denominator; 0 and 0.0 are Zero.
Ratio(a, b) == [num |-> a, den |-> b]

Zero == Ratio(0, 1)

\* db.query(func.sum(column)).scalar() over a whole table: NULL over no rows.
scalar_sum(table, column) ==
    IF DOMAIN table = {} THEN <<>>
    ELSE <<SumOver(DOMAIN table, [r \in DOMAIN table |-> table[r][column]])>>

\* db.query(func.avg(column)).scalar() over a whole table: NULL over no rows.
scalar_avg(table, column) ==
    IF DOMAIN table = {} THEN <<>>
    ELSE <<Ratio(SumOver(DOMAIN table, [r \in DOMAIN table |-> table[r][column]]),
                 Cardinality(DOMAIN table))>>

\* Python's `x or 0.0` on the scalar of an average.
OrZeroRatio(x) == IF x = <<>> \/ x[1].num = 0 THEN Zero ELSE x[1]

\* The rows of a table that GROUP BY key puts in the group k; the rows whose
\* key is NULL form one group.
Group(table, key, k) == {r \in DOMAIN table : table[r][key] = k}

GroupKeys(table, key) == {table[r][key] : r \in DOMAIN table}

\* dict(db.query(key, func.sum(column)).group_by(key).all())
group_sum(table, key, column) ==
    [k \in GroupKeys(table, key) |->
        SumOver(Group(table, key, k), [r \in DOMAIN table |-> table[r][column]])]

group_count_of_keys(table, key) ==
    [k \in GroupKeys(table, key) |-> 1]

\* dict(db.query(key, func.count(Business.id)).group_by(key).all())
group_count(table, key) ==
    [k \in GroupKeys(table, key) |-> Cardinality(Group(table, key, k))]

get_revenue_analytics_averaging_services(d) ==
    [total_monthly_revenue |-> OrZero(scalar_sum(d.businesses, "total_monthly_revenue")),
     average_monthly_revenue |->
        IF DOMAIN d.services = {} THEN Zero
        ELSE Ratio(OrZero(scalar_sum(d.businesses, "total_monthly_revenue")),
                   Cardinality(DOMAIN d.services)),
     revenue_by_industry |-> group_sum(d.businesses, "industry", "total_monthly_revenue"),
     revenue_by_province |-> group_sum(d.businesses, "province", "total_monthly_revenue"),
     revenue_by_service_type |-> group_sum(d.services, "service_type", "monthly_price")]

\* crud.get_revenue_analytics
get_revenue_analytics(d) ==
    [total_monthly_revenue |-> OrZero(scalar_sum(d.businesses, "total_monthly_revenue")),
     average_monthly_revenue |-> OrZeroRatio(scalar_avg(d.businesses, "total_monthly_revenue")),
     revenue_by_industry |-> group_sum(d.businesses, "industry", "total_monthly_revenue"),
     revenue_by_province |-> group_sum(d.businesses, "province", "total_monthly_revenue"),
     revenue_by_service_type |-> group_sum(d.services, "service_type", "monthly_price")]

get_customer_analytics_unguarded(d) ==
    LET total_customers == Cardinality(DOMAIN d.businesses)
        total_services == Cardinality(DOMAIN d.services)
    IN [total_customers |-> total_customers,
        customers_by_industry |-> group_count(d.businesses, "industry"),
        customers_by_province |-> group_count(d.businesses, "province"),
        customers_by_status |-> group_count(d.businesses, "account_status"),
        average_services_per_customer |->
           IF total_services > 0 THEN Ratio(total_services, total_customers) ELSE Zero]

\* crud.get_customer_analytics
get_customer_analytics(d) ==
    LET total_customers == Cardinality(DOMAIN d.businesses)
        total_services == Cardinality(DOMAIN d.services)
        avg_services == IF total_customers > 0 THEN Ratio(total_services, total_customers) ELSE Zero
    IN [total_customers |-> total_customers,
        customers_by_industry |-> group_count(d.businesses, "industry"),
        customers_by_province |-> group_count(d.businesses, "province"),
        customers_by_status |-> group_count(d.businesses, "account_status"),
        average_services_per_customer |-> avg_services]

\* A Dict[str, ...] field of a response model: no key is None.
StrKeys(dict) == None \notin DOMAIN dict

\* The response validated as schemas.RevenueAnalytics.
ValidRevenueAnalytics(body) ==
    /\ StrKeys(body.revenue_by_industry)
    /\ StrKeys(body.revenue_by_province)
    /\ StrKeys(body.revenue_by_service_type)

\* The response validated as schemas.CustomerAnalytics.
ValidCustomerAnalytics(body) ==
    /\ StrKeys(body.customers_by_industry)
    /\ StrKeys(body.customers_by_province)
    /\ StrKeys(body.customers_by_status)

\* A request that reads: the store is left as it is.
Read(response) ==
    /\ last' = response
    /\ UNCHANGED <<businesses, services, pc, req>>

\* GET /api/v1/analytics/revenue
RevenueAnalytics ==
    LET body == get_revenue_analytics(db)
    IN IF ValidRevenueAnalytics(body)
       THEN Read([Response("get_revenue_analytics", "ok", None, 0) EXCEPT !.body = <<body>>])
       ELSE Read(Response("get_revenue_analytics", "ResponseValidationError", None, 0))

\* GET /api/v1/analytics/customers
CustomerAnalytics ==
    LET body == get_customer_analytics(db)
    IN IF ValidCustomerAnalytics(body)
       THEN Read([Response("get_customer_analytics", "ok", None, 0) EXCEPT !.body = <<body>>])
       ELSE Read(Response("get_customer_analytics", "ResponseValidationError", None, 0))

\* GET /api/v1/analytics/summary: a plain dict, no response model.
AnalyticsSummary ==
    LET revenue_analytics == get_revenue_analytics(db)
        customer_analytics == get_customer_analytics(db)
        body == [revenue |-> revenue_analytics,
                 customers |-> customer_analytics,
                 summary |->
                    [total_customers |-> customer_analytics.total_customers,
                     total_monthly_revenue |-> revenue_analytics.total_monthly_revenue,
                     average_revenue_per_customer |->
                        IF customer_analytics.total_customers > 0
                        THEN Ratio(revenue_analytics.total_monthly_revenue,
                                   customer_analytics.total_customers)
                        ELSE Zero]]
    IN /\ last' = [Response("get_analytics_summary", "ok", None, 0) EXCEPT !.body = <<body>>]
       /\ UNCHANGED <<businesses, services, pc, req>>

\* main.read_business: the outcome and the row returned.
read_business(d, business_id) ==
    IF get_business(d, business_id) = None
    THEN [status |-> "NotFound", body |-> <<>>]
    ELSE IF ~ValidBusiness(d, business_id)
    THEN [status |-> "ResponseValidationError", body |-> <<>>]
    ELSE [status |-> "ok", body |-> <<d.businesses[business_id]>>]

\* GET /api/v1/businesses/{business_id}
ReadBusiness(business_id) ==
    LET response == read_business(db, business_id)
    IN /\ last' = [Response("read_business", response.status, business_id, 0)
                     EXCEPT !.body = response.body]
       /\ UNCHANGED <<businesses, services, pc, req>>

read_business_services_unchecked(d, business_id) ==
    [status |-> "ok", services |-> DOMAIN d.services]

\* main.read_business_services: the outcome and the ids of the rows returned.
read_business_services(d, business_id) ==
    IF get_business(d, business_id) = None
    THEN [status |-> "NotFound", services |-> {}]
    ELSE IF \E s \in get_services_by_business(d, business_id) : ~ValidService(d.services[s])
    THEN [status |-> "ResponseValidationError", services |-> {}]
    ELSE [status |-> "ok", services |-> get_services_by_business(d, business_id)]

\* GET /api/v1/businesses/{business_id}/services
ReadBusinessServices(business_id) ==
    LET response == read_business_services(db, business_id)
    IN /\ last' = [Response("read_business_services", response.status, business_id, 0)
                     EXCEPT !.body = <<response.services>>]
       /\ UNCHANGED <<businesses, services, pc, req>>

\* The businesses created where the analytics group them: B1 and B2 are in
\* the same industry, and differ in province and account_status.
AnalyticsBusinessCreate ==
    {business \in BusinessCreate(BusinessBase, 0) :
        /\ HasAttr(business, "id")
        /\ business.data.industry = "Technology"
        /\ business.id = "B1" <=> business.data = AcmeCorp}

\* PUT /businesses/{id} bodies that set a grouping key to null or to "".
KeyUpdateBodies == {[industry |-> None], [industry |-> ""]}

\* PUT /services/{id} bodies: a move to B2, a service type set to null.
AnalyticsServiceUpdate == {[business_id |-> "B2"], [service_type |-> None]}

\* The listing requested together with the analytics: no filter.
AnalyticsQueries == {EmptyDict}

NextAnalytics ==
    \/ \E business \in AnalyticsBusinessCreate : CreateBusiness(business)
    \/ \E business_id \in BizIds, body \in KeyUpdateBodies : UpdateBusiness(business_id, body)
    \/ \E business_id \in BizIds : DeleteBusiness(business_id)
    \/ \E business_id \in BizIds, service \in ServiceCreate : CreateService(business_id, service)
    \/ \E service_id \in ServiceIds, service_update \in AnalyticsServiceUpdate :
          UpdateService(service_id, service_update)
    \/ \E service_id \in ServiceIds : DeleteService(service_id)
    \/ RevenueAnalytics
    \/ CustomerAnalytics
    \/ AnalyticsSummary
    \/ \E business_id \in BizIds : ReadBusiness(business_id)
    \/ \E business_id \in BizIds : ReadBusinessServices(business_id)
    \/ \E skip \in 0..1, limit \in 1..MaxLimit, q \in AnalyticsQueries : ReadBusinesses(skip, limit, q)

SpecAnalytics == Init /\ [][NextAnalytics]_vars

\* ------------------------------------------- filters given as empty strings
\* The filters of a business listing, each given as the empty string, alone
\* and next to a province filter that is not empty.
EmptyFilterArgs ==
    {Merge(e, f) :
        e \in {EmptyDict, [search |-> <<>>], [industry |-> ""], [province |-> ""],
               [city |-> ""], [account_status |-> ""]},
        f \in {EmptyDict, [province |-> "ON"]}}

\* The filters of a services listing, each given as the empty string, alone
\* and next to a business_id filter that is not empty.
EmptyServiceArgs ==
    {Merge(e, f) :
        e \in {EmptyDict, [service_type |-> ""], [status |-> ""], [business_id |-> ""]},
        f \in {EmptyDict, [business_id |-> "B1"]}}

\* The businesses listed: any of the base fields, at most one service each.
EmptyFilterBusinessCreate ==
    {business \in BusinessCreate(BusinessBase, 1) : HasAttr(business, "id")}

NextEmpty ==
    \/ \E business \in EmptyFilterBusinessCreate : CreateBusiness(business)
    \/ \E business_id \in BizIds : DeleteBusiness(business_id)
    \/ \E skip \in 0..1, limit \in 1..MaxLimit, q \in EmptyFilterArgs : ReadBusinesses(skip, limit, q)
    \/ \E skip \in 0..1, limit \in 1..MaxLimit, q \in EmptyServiceArgs : ReadServices(skip, limit, q)

SpecEmpty == Init /\ [][NextEmpty]_vars

\* ------------------------------------------------------------------ claims
OwnedTotal(business_id) ==
    SumOver(get_services_by_business(db, business_id),
            [r \in DOMAIN services |-> services[r].monthly_price])

ServiceOps == {"create_service", "update_service", "delete_service"}

\* C1 (as claimed): every Business in the store has total_monthly_revenue equal
\* to the sum of monthly_price over the Service rows whose business_id is its
\* id, 0 when it owns none, after any sequence of completed service operations.
RevenueInvariant ==
    \A b \in DOMAIN businesses : businesses[b].total_monthly_revenue = OwnedTotal(b)

\* C2: a create_business that succeeds leaves the new Business with
\* total_monthly_revenue equal to the sum of the provided prices, adds exactly
\* one Service row per provided service, each owned by the new Business, and
\* touches no row that was there.
CreatedRows == DOMAIN services' \ DOMAIN services

CreateBusinessPost ==
    [][ (last'.op = "create_business" /\ last'.status = "ok") =>
          /\ last'.business_id \notin DOMAIN businesses
          /\ last'.business_id \in DOMAIN businesses'
          /\ businesses'[last'.business_id].total_monthly_revenue
               = PySum([i \in 1..Len(last'.body) |-> last'.body[i].monthly_price])
          /\ Cardinality(CreatedRows) = Len(last'.body)
          /\ \A s \in CreatedRows : services'[s].business_id = last'.business_id
          /\ \A i \in 1..Len(last'.body) :
               \E s \in CreatedRows : services'[s] = ServiceRow(last'.body[i], last'.business_id)
          /\ \A s \in DOMAIN services : s \in DOMAIN services' /\ services'[s] = services[s]
      ]_vars

CreateBusinessWitness ==
    /\ last.op = "create_business"
    /\ last.status = "ok"
    /\ Len(last.body) = 2
    /\ businesses[last.business_id].total_monthly_revenue = 3

\* C3: after a delete_business that succeeds no Service row references the
\* deleted id and get_business finds no Business under it.
CascadeDeletion ==
    (last.op = "delete_business" /\ last.status = "ok") =>
        /\ get_services_by_business(db, last.business_id) = {}
        /\ get_business(db, last.business_id) = None

CascadeDeletionWitness ==
    /\ last.op = "delete_business"
    /\ last.status = "ok"
    /\ Cardinality(last.removed) = 2

\* C7: update_business_revenue called again for the same business right after
\* itself, nothing served in between, leaves both tables as the first call
\* left them.
IdempotentReconciliation ==
    [][ last'.again => (businesses' = businesses /\ services' = services) ]_vars

IdempotentReconciliationWitness ==
    /\ last.again
    /\ last.business_id \in DOMAIN businesses
    /\ businesses[last.business_id].total_monthly_revenue = 3

\* C9: a service create, update or delete that succeeds calls
\* update_business_revenue exactly once, for the business_id of the row it
\* changed, and the sum that call read is the sum over the rows as changed; a
\* request answered NotFound calls it not at all.
AffectedBusiness ==
    IF last.op = "delete_service" THEN last.business_id ELSE services[last.service_id].business_id

ReconciledOnce ==
    /\ (last.op \in ServiceOps /\ last.status = "ok") =>
          /\ Len(last.reconciled) = 1
          /\ last.reconciled[1].business_id = AffectedBusiness
          /\ last.reconciled[1].total_revenue = revenue_query(db, AffectedBusiness)
    /\ (last.status = "NotFound") => last.reconciled = <<>>

ReconciledOnceWitness ==
    /\ last.op = "update_service"
    /\ last.status = "ok"
    /\ "monthly_price" \notin DOMAIN last.body
    /\ Len(last.reconciled) = 1
    /\ last.reconciled[1].total_revenue = 3


\* C5 (as claimed): a service create, update or delete whose reconciliation
\* fails is rolled back as a whole: the services table is as it was before
\* the request.
AtomicServiceMutation ==
    [][ (last'.op \in ServiceOps /\ last'.status = "StoreFailure") => services' = services ]_vars

\* C6 (as claimed): a create_business given services that fails leaves neither
\* the Business nor any of its Services in the store.
AtomicCreateBusiness ==
    [][ (last'.op = "create_business" /\ last'.status = "StoreFailure" /\ last'.body # <<>>) =>
          (businesses' = businesses /\ services' = services) ]_vars

Quiescent == \A w \in Workers : pc[w] = "idle"

\* C4 (as claimed): whenever no request is in progress, every business's
\* total_monthly_revenue is the sum of the monthly_price of its services,
\* whatever the interleaving of the service requests that were served.
QuiescentRevenue == Quiescent => RevenueInvariant

\* worker w runs a statement of update_business_revenue
ReconcileStep(w) == pc[w] \in {"sum", "load", "write"} /\ pc'[w] # pc[w]

\* C8: a step of update_business_revenue never adds a business row; while its
\* business is not in the store it changes no row; and when its get_business
\* finds no business it ends there without an error.
ReconcileMissingBusiness ==
    [][\A w \in Workers :
          ReconcileStep(w) =>
             /\ DOMAIN businesses' \subseteq DOMAIN businesses
             /\ get_business(db, req[w].business_id) = None =>
                   /\ businesses' = businesses /\ services' = services
                   /\ pc[w] = "load" => (pc'[w] = "idle" /\ req'[w].status = "ok" /\ req'[w].skipped)]_vars

\* update_business_revenue found its business deleted, and left it deleted
ReconcileMissingBusinessWitness ==
    \E w \in Workers :
       /\ pc[w] = "idle" /\ req[w].skipped
       /\ businesses = EmptyDict
       /\ services # EmptyDict

\* the rows that the page's query keeps when it skips none and takes all
WholeFilteredSet ==
    get_businesses(db, CHOOSE order \in RowOrders(db) : TRUE, 0, Cardinality(DOMAIN businesses), last.query)

\* C10: the total reported by read_businesses is the number of businesses in
\* the store that the filters of the page's query keep, whatever skip and
\* limit are.
ListTotal ==
    (last.op = "read_businesses" /\ last.status = "ok") => last.total = Len(WholeFilteredSet)

\* a filtered listing whose page is shorter than the filtered set
ListTotalWitness ==
    /\ last.op = "read_businesses" /\ last.status = "ok"
    /\ Cardinality(DOMAIN businesses) = 2
    /\ TruthyText(last.query, "search") /\ Truthy(last.query, "city")
    /\ last.total = 1 /\ last.skip = 1 /\ last.businesses = <<>>

\* the services rows that satisfy the filters given, by exact equality
MatchingServices(q) ==
    {id \in DOMAIN services :
        \A name \in DOMAIN q \cap {"service_type", "status", "business_id"} :
           q[name] # "" => services[id][name] = q[name]}

\* C11 (as claimed): the total reported by read_services is the number of all
\* services rows matching the filters, however many rows match.
ServiceListTotal ==
    (last.op = "read_services" /\ last.status = "ok") =>
        last.total = Cardinality(MatchingServices(last.query))

RECURSIVE SumTo(_, _)
SumTo(f, n) == IF n = 0 THEN 0 ELSE f[n] + SumTo(f, n - 1)

\* the sizes of the pages 1..pages of a business listing at limit L
PageSizes(order, L, q, pages) ==
    [p \in 1..pages |-> Len(get_businesses(db, order, (p - 1) * L, L, q))]

\* C12: a page of read_businesses at limit L > 0 has at most L rows, pages is
\* ceil(total / L), and the sizes of the pages at skip 0, L, 2L, ... over
\* pages 1..pages sum to total.
PaginationCovers ==
    (last.op = "read_businesses" /\ last.status = "ok") =>
        /\ last.limit > 0
        /\ Len(last.businesses) <= last.limit
        /\ last.pages * last.limit >= last.total
        /\ (last.pages - 1) * last.limit < last.total
        /\ \A order \in RowOrders(db) :
              SumTo(PageSizes(order, last.limit, last.query, last.pages), last.pages) = last.total

\* two businesses match a search and are listed on two pages of one row
PaginationCoversWitness ==
    /\ last.op = "read_businesses" /\ last.status = "ok"
    /\ TruthyText(last.query, "search")
    /\ last.limit = 1 /\ last.skip = 1 /\ last.total = 2 /\ last.pages = 2
    /\ Len(last.businesses) = 1

\* the businesses rows that satisfy the equality filters given
MatchingBusinesses(q) ==
    {id \in DOMAIN businesses :
        \A name \in DOMAIN q \cap {"industry", "province", "city", "account_status"} :
           q[name] # "" => businesses[id][name] = q[name]}

\* the number of rows left of n matching rows after skipping skip of them
AfterSkip(n, skip) == IF n > skip THEN n - skip ELSE 0

\* C13 (as claimed): get_services and get_businesses called with limit = 0
\* return all the rows matching the filters, from offset skip.
LimitZeroReturnsAll ==
    /\ (last.op = "get_services" /\ last.limit = 0) =>
          Len(last.services) = AfterSkip(Cardinality(MatchingServices(last.query)), last.skip)
    /\ (last.op = "get_businesses" /\ last.limit = 0) =>
          Len(last.businesses) = AfterSkip(Cardinality(MatchingBusinesses(last.query)), last.skip)

\* C14: in a listing response, when limit > 0 page is floor(skip / limit) + 1
\* and pages is ceil(total / limit); when limit = 0 page is 1 and pages is 0.
PageMetadataCorrect ==
    (last.op \in {"read_services", "page_metadata"} /\ last.status = "ok") =>
        IF last.limit > 0
        THEN /\ (last.page - 1) * last.limit <= last.skip
             /\ last.skip < last.page * last.limit
             /\ (last.pages - 1) * last.limit < last.total
             /\ last.total <= last.pages * last.limit
        ELSE last.page = 1 /\ last.pages = 0

\* the metadata of a response computed with limit = 0
PageMetadataCorrectWitness ==
    /\ last.op = "page_metadata"
    /\ last.limit = 0 /\ last.skip = 2 /\ last.total = 3
    /\ last.page = 1 /\ last.pages = 0

Range(s) == {s[i] : i \in DOMAIN s}

Without(q, name) == [k \in DOMAIN q \ {name} |-> q[k]]

\* the businesses that the query q of a listing keeps, whatever the page
FilteredSet(q) ==
    Range(get_businesses(db, CHOOSE order \in RowOrders(db) : TRUE, 0, Cardinality(DOMAIN businesses), q))

\* C15: every business that read_businesses returns equals, in each field,
\* the field filter that is present for it (given, and not the empty string,
\* which C30 states to count as absent), and taking one filter away from the
\* query never takes a business away from the matching set nor lowers the
\* total.
FilterComposition ==
    (last.op = "read_businesses" /\ last.status = "ok") =>
        /\ \A id \in Range(last.businesses) :
              \A name \in DOMAIN last.query \cap {"industry", "province", "city", "account_status"} :
                 last.query[name] # "" => businesses[id][name] = last.query[name]
        /\ \A name \in DOMAIN last.query :
              /\ FilteredSet(last.query) \subseteq FilteredSet(Without(last.query, name))
              /\ get_businesses_count(db, Without(last.query, name)) >= last.total

FilterCompositionWitness ==
    /\ last.op = "read_businesses" /\ last.status = "ok"
    /\ last.query = [industry |-> "Technology", city |-> "Toronto"]
    /\ Len(last.businesses) = 1
    /\ last.total = 1
    /\ Cardinality(DOMAIN businesses) = 2

\* s occurs in text, without regard to case
IsSubstring(s, text) ==
    \E i \in 0..(Len(text) - Len(s)) :
       \A j \in 1..Len(s) : Lower(s[j]) = Lower(text[i + j])

\* the businesses of which s is a substring of the company name, email or phone
SearchMatches(s) ==
    {id \in DOMAIN businesses :
        \/ IsSubstring(s, businesses[id].company_name)
        \/ IsSubstring(s, businesses[id].email)
        \/ IsSubstring(s, businesses[id].phone)}

\* C16 (as claimed): with a search string given, the businesses a listing
\* keeps are those its other filters keep and of which the string is a
\* case-insensitive substring of the company name, email or phone.
SearchSemantics ==
    (last.op = "read_businesses" /\ last.status = "ok" /\ HasAttr(last.query, "search")) =>
        FilteredSet(last.query) =
            FilteredSet(Without(last.query, "search")) \cap SearchMatches(last.query.search)

BusinessIdOps == {"update_business", "delete_business"}

ServiceIdOps == {"update_service", "delete_service"}

\* C18: update_business and delete_business on a business id that is not in
\* the store, and update_service and delete_service on a service id that is
\* not in the store, end in NotFound, and a request that ends in NotFound
\* changes no business row and no services row.
NotFoundUnchanged ==
    [][ /\ (last'.op \in BusinessIdOps /\ last'.business_id \notin DOMAIN businesses) =>
              last'.status = "NotFound"
        /\ (last'.op \in ServiceIdOps /\ last'.service_id \notin DOMAIN services) =>
              last'.status = "NotFound"
        /\ (last'.op \in BusinessIdOps \cup ServiceIdOps /\ last'.status = "NotFound") =>
              (businesses' = businesses /\ services' = services) ]_vars

\* an update of a service that is not in a store that holds other rows
NotFoundUnchangedWitness ==
    /\ last.op = "update_service" /\ last.status = "NotFound"
    /\ last.service_id \notin DOMAIN services
    /\ services # EmptyDict
    /\ businesses # EmptyDict

\* C19: create_service for a business id that is not in the store ends in
\* NotFound and adds no services row; otherwise it succeeds, adds exactly one
\* services row, which references that business, and changes no other
\* services row.
CreateServicePost ==
    [][ last'.op = "create_service" =>
          IF last'.business_id \notin DOMAIN businesses
          THEN last'.status = "NotFound" /\ services' = services /\ businesses' = businesses
          ELSE /\ last'.status = "ok"
               /\ \E service_id \in DOMAIN services' \ DOMAIN services :
                     /\ DOMAIN services' = DOMAIN services \cup {service_id}
                     /\ services'[service_id].business_id = last'.business_id
               /\ \A service_id \in DOMAIN services : services'[service_id] = services[service_id] ]_vars

\* a second service was created, for another business than the first
CreateServicePostWitness ==
    /\ last.op = "create_service" /\ last.status = "ok"
    /\ Cardinality(DOMAIN services) = 2
    /\ \E service_id \in DOMAIN services : services[service_id].business_id # last.business_id

\* C20 (as claimed): a create_business whose caller supplies an id that a
\* business in the store has ends in DuplicateIdentifier and changes no row.
DuplicateIdentifierRejected ==
    [][ (last'.op = "create_business" /\ last'.supplied \in DOMAIN businesses) =>
          /\ last'.status = "DuplicateIdentifier"
          /\ businesses' = businesses /\ services' = services ]_vars

\* the sum of total_monthly_revenue over the businesses rows
SumOfTotals == SumOver(DOMAIN businesses, [b \in DOMAIN businesses |-> businesses[b].total_monthly_revenue])

\* the revenue analytics that the request just served returned, if any
RevenueBodies ==
    IF last.op = "get_revenue_analytics" /\ last.status = "ok" THEN {last.body[1]}
    ELSE IF last.op = "get_analytics_summary" THEN {last.body[1].revenue}
    ELSE {}

\* C21: the revenue analytics return as total_monthly_revenue the sum of
\* total_monthly_revenue over all businesses and as average_monthly_revenue
\* that sum divided by the number of businesses; with no business both are 0
\* and the totals make no request fail (a request that fails has met a null
\* service_type left on a services row, the matter of C22).
RevenueTotals ==
    /\ \A body \in RevenueBodies :
          /\ body.total_monthly_revenue = SumOfTotals
          /\ body.average_monthly_revenue.den > 0
          /\ body.average_monthly_revenue.num * Cardinality(DOMAIN businesses)
                = SumOfTotals * body.average_monthly_revenue.den
          /\ DOMAIN businesses = {} =>
                body.total_monthly_revenue = 0 /\ body.average_monthly_revenue = Zero
    /\ (last.op = "get_revenue_analytics" /\ DOMAIN businesses = {}) =>
          \/ last.status = "ok"
          \/ \E s \in DOMAIN services : services[s].service_type = None

RevenueTotalsWitness ==
    /\ last.op = "get_revenue_analytics" /\ last.status = "ok"
    /\ Cardinality(DOMAIN businesses) = 2
    /\ last.body[1].total_monthly_revenue = 3
    /\ last.body[1].average_monthly_revenue = Ratio(3, 2)

\* the sum of column over the rows of table whose key is k
GroupTotal(table, key, k, column) ==
    SumOver({r \in DOMAIN table : table[r][key] = k}, [r \in DOMAIN table |-> table[r][column]])

\* grouped holds one group for each value of key in table, NULL and ""
\* included, with the sum of column over the rows of that group
GroupsOf(grouped, table, key, column) ==
    /\ DOMAIN grouped = {table[r][key] : r \in DOMAIN table}
    /\ \A k \in DOMAIN grouped : grouped[k] = GroupTotal(table, key, k, column)

\* C22 (as claimed): revenue_by_service_type sums Service.monthly_price per
\* service type, revenue_by_industry and revenue_by_province sum
\* total_monthly_revenue per key; every row is in exactly one group, rows with
\* a null or empty key in a group of their own, and such a key does not make
\* the request fail.
GroupedRevenue ==
    /\ \A body \in RevenueBodies :
          /\ GroupsOf(body.revenue_by_service_type, services, "service_type", "monthly_price")
          /\ GroupsOf(body.revenue_by_industry, businesses, "industry", "total_monthly_revenue")
          /\ GroupsOf(body.revenue_by_province, businesses, "province", "total_monthly_revenue")
    /\ last.op = "get_revenue_analytics" => last.status = "ok"

\* the customer analytics that the request just served returned, if any
CustomerBodies ==
    IF last.op = "get_customer_analytics" /\ last.status = "ok" THEN {last.body[1]}
    ELSE IF last.op = "get_analytics_summary" THEN {last.body[1].customers}
    ELSE {}

\* the quotient q is a / b, and is 0 where b is 0
QuotientOrZero(q, a, b) ==
    IF b > 0 THEN q.den > 0 /\ q.num * b = a * q.den ELSE q = Zero

\* C23: average_services_per_customer is the number of services divided by
\* the number of businesses and average_revenue_per_customer the total revenue
\* divided by the number of businesses; with no business both are 0, also
\* where services rows still exist.
AveragesPerCustomer ==
    /\ \A body \in CustomerBodies :
          QuotientOrZero(body.average_services_per_customer,
                         Cardinality(DOMAIN services), Cardinality(DOMAIN businesses))
    /\ last.op = "get_analytics_summary" =>
          QuotientOrZero(last.body[1].summary.average_revenue_per_customer,
                         SumOfTotals, Cardinality(DOMAIN businesses))

AveragesPerCustomerWitness ==
    /\ last.op = "get_analytics_summary"
    /\ DOMAIN businesses = {}
    /\ DOMAIN services # {}
    /\ last.body[1].customers.average_services_per_customer = Zero
    /\ last.body[1].summary.average_revenue_per_customer = Zero

\* the sum of the values of a dict of counts
SumOfValues(dict) == SumOver(DOMAIN dict, dict)

\* the counts of the customer analytics body add up to the number of businesses
CountsAddUp(body, biz) ==
    /\ body.total_customers = Cardinality(DOMAIN biz)
    /\ SumOfValues(body.customers_by_industry) = body.total_customers
    /\ SumOfValues(body.customers_by_province) = body.total_customers
    /\ SumOfValues(body.customers_by_status) = body.total_customers

\* C24: the customer analytics report as total_customers the number of
\* businesses, the counts per industry, per province and per account_status
\* each add up to total_customers, and the request changes no row.
CustomerCounts ==
    [][ /\ last'.op \in {"get_customer_analytics", "get_analytics_summary"} =>
              UNCHANGED <<businesses, services>>
        /\ (last'.op = "get_customer_analytics" /\ last'.status = "ok") =>
              CountsAddUp(last'.body[1], businesses)
        /\ last'.op = "get_analytics_summary" =>
              CountsAddUp(last'.body[1].customers, businesses) ]_vars

CustomerCountsWitness ==
    /\ last.op = "get_customer_analytics" /\ last.status = "ok"
    /\ last.body[1].total_customers = 2
    /\ last.body[1].customers_by_industry = [k \in {"Technology"} |-> 2]
    /\ Cardinality(DOMAIN last.body[1].customers_by_province) = 2

ListGetConsistent ==
    (last.op = "read_businesses" /\ last.status = "ok") =>
        \A i \in DOMAIN last.businesses :
           LET id == last.businesses[i]
           IN /\ read_business(db, id).status = "ok"
              /\ read_business(db, id).body = <<businesses[id]>>
              /\ read_business_services(db, id).status = "ok"
              /\ read_business_services(db, id).services
                    = {s \in DOMAIN services : services[s].business_id = id}

ListGetConsistentWitness ==
    /\ last.op = "read_businesses" /\ last.status = "ok"
    /\ Len(last.businesses) = 2
    /\ \A b \in BizIds : \E s \in DOMAIN services : services[s].business_id = b

\* C27 (as claimed): in every reachable state, also while create_service,
\* update_service and delete_business requests are served concurrently, the
\* business_id of every services row names a business that exists.
ReferentialIntegrity ==
    \A s \in DOMAIN services : services[s].business_id \in DOMAIN businesses

\* C28 (as claimed): after an update_service that moves a service from a
\* business A to another business B, the total_monthly_revenue of A and that
\* of B each equal the sum of the prices of the services they then own.
MoveReconcilesBoth ==
    [][ ( /\ last'.op = "update_service" /\ last'.status = "ok"
          /\ "business_id" \in DOMAIN last'.body
          /\ last'.service_id \in DOMAIN services
          /\ services[last'.service_id].business_id # last'.body.business_id
          /\ services[last'.service_id].business_id \in DOMAIN businesses
          /\ last'.body.business_id \in DOMAIN businesses ) =>
              \A b \in {services[last'.service_id].business_id, last'.body.business_id} :
                 /\ b \in DOMAIN businesses'
                 /\ businesses'[b].total_monthly_revenue = OwnedTotal(b)' ]_vars

\* C29 (as claimed): after any sequence of create_business, create_service,
\* update_service, delete_service and delete_business served one at a time,
\* the values of revenue_by_service_type add up to the total_monthly_revenue
\* that the same revenue analytics report.
CrossAggregate ==
    \A body \in RevenueBodies :
       SumOfValues(body.revenue_by_service_type) = body.total_monthly_revenue

\* the filters of the query q that were given empty
EmptyFilters(q) ==
    {name \in DOMAIN q : IF name = "search" THEN q[name] = <<>> ELSE q[name] = ""}

\* C30: a filter given as the empty string is treated as a filter that was
\* not given: read_businesses (search, industry, province, city,
\* account_status) and read_services (service_type, status, business_id)
\* return a page and a total that the same request without that filter
\* returns.
EmptyFilterIsAbsent ==
    /\ (last.op = "read_businesses" /\ last.status = "ok") =>
          \A name \in EmptyFilters(last.query) :
             /\ \E order \in RowOrders(db) :
                   last.businesses
                      = get_businesses(db, order, last.skip, last.limit, Without(last.query, name))
             /\ last.total = get_businesses_count(db, Without(last.query, name))
    /\ (last.op = "read_services" /\ last.status = "ok") =>
          \A name \in EmptyFilters(last.query) :
             \E order \in ServiceOrders(db) :
                /\ last.services
                      = get_services(db, order, last.skip, last.limit, Without(last.query, name))
                /\ last.total
                      = Len(get_services(db, order, 0, DefaultLimit, Without(last.query, name)))

EmptyFilterIsAbsentWitness ==
    /\ last.op = "read_businesses" /\ last.status = "ok"
    /\ last.query = [industry |-> "", province |-> "ON"]
    /\ Len(last.businesses) = 2
    /\ last.total = 2
====
